---- MODULE Spec2Model ----
(***************************************************************************)
(* Model of Open-AutoGLM-WebUI:                                            *)
(*   - web_server.py      websocket_endpoint, the step-streaming session   *)
(*   - adb/scanner.py     scan_network, the fast-path/slow-path discovery  *)
(*   - model/client.py    request and _parse_response, the reply decoder   *)
(* Spec drives the websocket sessions (FairSpec adds the fairness of the   *)
(* event loop), SpecScan drives one call of scan_network, SpecDecode       *)
(* drives one call of ModelClient.request.                                 *)
(***************************************************************************)
EXTENDS Integers, Sequences, FiniteSets, TLC

\* ------------------------------------------------------------------------
\* Bounds of the session model
\* ------------------------------------------------------------------------
\* task-start messages the clients send in one behaviour, over all connections
MaxTasks == 2
\* largest number of finished=false results a stubbed executor returns
MaxK == 1

\* the two client connections served by the event loop
Conns == {"A", "B"}

VARIABLES
    \* ---- web_server.py: websocket_endpoint, one coroutine per connection
    pc,        \* position of the coroutine of each connection
    inbox,     \* task-start messages received by the server, not yet read
    lost,      \* the client side of the connection is gone
    wire,      \* every send_json call of the coroutine, in order, with its outcome
    sess,      \* task-start messages read so far on the connection
    cur,       \* the task-start message of the running task (data)
    built,     \* PhoneAgent objects constructed on the connection
    calls,     \* agent.step calls started for the running task
    inflight,  \* agent.step calls running in the executor's threads
    taken,     \* the task-start messages read on the connection, in order
    result,    \* the local variable result
    err,       \* the exception e caught at line 142
    exit,      \* how the coroutine ended
    lossSeen,  \* a receive or a send of the coroutine has failed on the lost connection
    budget,    \* task-start messages the clients may still send
    agent_lock, \* holder of the module's agent_lock (line 38), or "free"
    \* ---- phone_agent/adb/scanner.py: one call of scan_network
    scanPc,    \* position inside scan_network
    envOpen,   \* addresses whose probe connects (connect_ex returns 0)
    envRaise,  \* addresses for which socket.socket() raises inside check_port
    local_ip,  \* scan_network's local_ip
    arp_local, \* get_arp_ips' local_ip (resolved again at line 34)
    arp_ips,   \* the list returned by get_arp_ips
    found_ips, \* scan_network's found_ips
    fastProbed, \* addresses handed to check_port by the fast path
    slowProbed, \* addresses handed to check_port by the slow path
    \* ---- phone_agent/model/client.py: one call of ModelClient.request
    decPc,       \* position inside request
    chunks,      \* chunks of the streamed reply consumed so far
    raw_content, \* request's raw_content
    thinking,    \* the thinking _parse_response returned
    action       \* the action _parse_response returned

wsVars == <<pc, inbox, lost, wire, sess, cur, built, calls, inflight, taken,
            result, err, exit, lossSeen, budget, agent_lock>>
scanVars == <<scanPc, envOpen, envRaise, local_ip, arp_local, arp_ips,
              found_ips, fastProbed, slowProbed>>
decVars == <<decPc, chunks, raw_content, thinking, action>>
vars == <<wsVars, scanVars, decVars>>

\* ------------------------------------------------------------------------
\* web_server.py: the session protocol
\* ------------------------------------------------------------------------
NoMsg == [task |-> 0, k |-> 0, raises |-> FALSE, message |-> "", setup |-> "ok",
          device_id |-> ""]
NoResult == [n |-> 0, finished |-> FALSE, message |-> ""]

\* A task-start message together with the behaviour of the stubbed step
\* executor it selects: calls 1..k return finished=false, call k+1 returns
\* finished=true, or raises when raises is set. The final result carries a
\* message when k is odd and none when k is even.
\* setup tells whether int(max_steps) and PhoneAgent(...) succeed.
\* device_id is the device the message names: every script is sent for
\* device d1, the shortest one for device d2 as well.
Messages ==
    {[task |-> 1, k |-> k, raises |-> r, setup |-> "ok", device_id |-> "d1",
      message |-> IF k % 2 = 1 /\ ~r THEN "done" ELSE ""] : k \in 0..MaxK, r \in BOOLEAN}
    \cup {[task |-> 1, k |-> 0, raises |-> FALSE, setup |-> f, device_id |-> "d1",
           message |-> ""] : f \in {"bad_max_steps", "agent_raises"}}
    \cup {[task |-> 1, k |-> 0, raises |-> FALSE, setup |-> "ok", device_id |-> "d2",
           message |-> ""]}

\* str(e) of what the executor raises, and of a send failing on a lost connection
StepFailure == "step failed"
SendFailure == "disconnected"

\* result.message or "Task completed" (line 140)
FinishMessage(r) == IF r.message = "" THEN "Task completed" ELSE r.message

\* the automation step the stub performs on its n-th call for message m
StepOutcome(m, n) ==
    IF n <= m.k THEN [raised |-> FALSE,
                      res |-> [n |-> n, finished |-> FALSE, message |-> ""]]
    ELSE IF m.raises THEN [raised |-> TRUE, res |-> NoResult]
    ELSE [raised |-> FALSE,
          res |-> [n |-> n, finished |-> TRUE, message |-> m.message]]

\* one send_json call: the event reaches the client unless the connection is lost
SendJson(c, type, data) ==
    /\ wire' = [wire EXCEPT ![c] = Append(@, [type |-> type, sess |-> sess[c],
                                             data |-> data, ok |-> ~lost[c]])]
    /\ lossSeen' = [lossSeen EXCEPT ![c] = @ \/ lost[c]]

\* the events the client of c received
Events(c) == SelectSeq(wire[c], LAMBDA e : e.ok)

InitWS ==
    /\ pc = [c \in Conns |-> "recv"]
    /\ inbox = [c \in Conns |-> <<>>]
    /\ lost = [c \in Conns |-> FALSE]
    /\ wire = [c \in Conns |-> <<>>]
    /\ sess = [c \in Conns |-> 0]
    /\ cur = [c \in Conns |-> NoMsg]
    /\ built = [c \in Conns |-> 0]
    /\ calls = [c \in Conns |-> 0]
    /\ inflight = [c \in Conns |-> 0]
    /\ taken = [c \in Conns |-> <<>>]
    /\ result = [c \in Conns |-> NoResult]
    /\ err = [c \in Conns |-> ""]
    /\ exit = [c \in Conns |-> "running"]
    /\ lossSeen = [c \in Conns |-> FALSE]
    /\ budget = MaxTasks
    /\ agent_lock = "free"

\* connection c has carried a task-start message
Used(c) == sess[c] + Len(inbox[c]) > 0

\* the client sends a task-start message; A is the connection that carries
\* the first one
ClientSend(c, m) ==
    /\ budget > 0
    /\ ~lost[c]
    /\ pc[c] # "closed"
    /\ c = "A" \/ Used("A")
    /\ inbox' = [inbox EXCEPT ![c] = Append(@, m)]
    /\ budget' = budget - 1
    /\ UNCHANGED <<pc, lost, wire, sess, cur, built, calls, inflight, taken,
                   result, err, exit, lossSeen>>
    /\ UNCHANGED <<agent_lock, scanVars, decVars>>

\* the client goes away (connections that never carry a task are left out)
ClientDisconnect(c) ==
    /\ ~lost[c]
    /\ pc[c] # "closed"
    /\ Used(c)
    /\ lost' = [lost EXCEPT ![c] = TRUE]
    /\ UNCHANGED <<pc, inbox, wire, sess, cur, built, calls, inflight, taken,
                   result, err, exit, lossSeen, budget>>
    /\ UNCHANGED <<agent_lock, scanVars, decVars>>

\* the event-loop thread can run the coroutine of c: no other coroutine is
\* executing a blocking agent.step call on it (the call runs in the executor)
LoopFree(c) ==
    \A d \in Conns \ {c} : pc[d] = "in_step" => inflight[d] > 0

\* the body of Receive: the message at the head of the inbox is read and the
\* configuration and the agent are built from it (lines 102-119)
ReadMessage(c) ==
    LET m == Head(inbox[c]) IN
        /\ inbox' = [inbox EXCEPT ![c] = Tail(@)]
        /\ sess' = [sess EXCEPT ![c] = @ + 1]
        /\ taken' = [taken EXCEPT ![c] = Append(@, m)]
        /\ IF m.setup = "ok"
           THEN /\ cur' = [cur EXCEPT ![c] = m]
                /\ built' = [built EXCEPT ![c] = @ + 1]
                /\ calls' = [calls EXCEPT ![c] = 0]
                /\ pc' = [pc EXCEPT ![c] = "send_info"]
                /\ UNCHANGED exit
           ELSE \* ValueError of int(), or the constructor's exception, leaves
                \* the while loop and is not a WebSocketDisconnect
                /\ UNCHANGED built
                /\ pc' = [pc EXCEPT ![c] = "closed"]
                /\ exit' = [exit EXCEPT ![c] = "crashed"]
                /\ UNCHANGED <<cur, calls>>

\* messages are read by a task of their own, whatever the coroutine is doing
ReceiveWhileRunning(c) ==
    /\ pc[c] # "closed"
    /\ LoopFree(c)
    /\ inbox[c] # <<>>
    /\ ReadMessage(c)
    /\ UNCHANGED <<lost, wire, inflight, result, err, lossSeen, budget>>
    /\ UNCHANGED <<agent_lock, scanVars, decVars>>

\* a session waits until no other connection runs a task for its device
ReceiveExclusive(c) ==
    /\ pc[c] = "recv"
    /\ LoopFree(c)
    /\ inbox[c] # <<>>
    /\ \A d \in Conns \ {c} :
          pc[d] \in {"recv", "closed"} \/ cur[d].device_id # Head(inbox[c]).device_id
    /\ ReadMessage(c)
    /\ UNCHANGED <<lost, wire, inflight, result, err, lossSeen, budget>>
    /\ UNCHANGED <<agent_lock, scanVars, decVars>>

\* lines 102-119: receive_json returns a message; config and agent are built
Receive(c) ==
    /\ pc[c] = "recv"
    /\ LoopFree(c)
    /\ inbox[c] # <<>>
    /\ ReadMessage(c)
    /\ UNCHANGED <<lost, wire, inflight, result, err, lossSeen, budget>>
    /\ UNCHANGED <<agent_lock, scanVars, decVars>>

\* line 102 and 146-147: receive_json raises WebSocketDisconnect
ReceiveDisconnect(c) ==
    /\ pc[c] = "recv"
    /\ LoopFree(c)
    /\ inbox[c] = <<>>
    /\ lost[c]
    /\ pc' = [pc EXCEPT ![c] = "closed"]
    /\ exit' = [exit EXCEPT ![c] = "disconnected"]
    /\ lossSeen' = [lossSeen EXCEPT ![c] = TRUE]
    /\ UNCHANGED <<inbox, lost, wire, sess, cur, built, calls, inflight, taken,
                   result, err, budget>>
    /\ UNCHANGED <<agent_lock, scanVars, decVars>>

\* the exception of a failed send is caught by "except Exception" (line 142)
AfterSend(c, next) ==
    IF lost[c]
    THEN /\ pc' = [pc EXCEPT ![c] = "send_error"]
         /\ err' = [err EXCEPT ![c] = SendFailure]
    ELSE /\ pc' = [pc EXCEPT ![c] = next]
         /\ UNCHANGED err

\* agent.step called on the event-loop thread itself, not through the executor
StepDispatchInline(c, go) ==
    IF go THEN /\ calls' = [calls EXCEPT ![c] = @ + 1]
               /\ UNCHANGED inflight
          ELSE UNCHANGED <<calls, inflight>>

\* lines 133 and 137: when the coroutine gets there (go), agent.step is
\* handed to the executor; no await separates the call from the send before it
StepDispatch(c, go) ==
    IF go THEN /\ calls' = [calls EXCEPT ![c] = @ + 1]
               /\ inflight' = [inflight EXCEPT ![c] = @ + 1]
          ELSE UNCHANGED <<calls, inflight>>

\* lines 124 and 133
SendInfo(c) ==
    /\ pc[c] = "send_info"
    /\ LoopFree(c)
    /\ SendJson(c, "info", "Starting task...")
    /\ AfterSend(c, "in_step")
    /\ StepDispatch(c, ~lost[c])
    /\ UNCHANGED <<inbox, lost, sess, cur, built, taken, result, exit, budget>>
    /\ UNCHANGED <<agent_lock, scanVars, decVars>>

\* the result of an unfinished step is not sent before the next call is made
StepReturnUnsent(c) ==
    /\ pc[c] = "in_step"
    /\ inflight[c] > 0
    /\ LET o == StepOutcome(cur[c], calls[c]) IN
        IF o.raised
        THEN /\ err' = [err EXCEPT ![c] = StepFailure]
             /\ pc' = [pc EXCEPT ![c] = "send_error"]
             /\ inflight' = [inflight EXCEPT ![c] = @ - 1]
             /\ UNCHANGED <<result, calls>>
        ELSE /\ result' = [result EXCEPT ![c] = o.res]
             /\ IF o.res.finished
                THEN /\ pc' = [pc EXCEPT ![c] = "send_step"]
                     /\ inflight' = [inflight EXCEPT ![c] = @ - 1]
                     /\ UNCHANGED calls
                ELSE /\ calls' = [calls EXCEPT ![c] = @ + 1]
                     /\ UNCHANGED <<pc, inflight>>
             /\ UNCHANGED err
    /\ UNCHANGED <<inbox, lost, wire, sess, cur, built, taken, exit,
                   lossSeen, budget>>
    /\ UNCHANGED <<agent_lock, scanVars, decVars>>

\* a step call of a lost connection is cancelled: the await raises
StepReturnCancelled(c) ==
    /\ pc[c] = "in_step"
    /\ inflight[c] > 0
    /\ LoopFree(c)
    /\ inflight' = [inflight EXCEPT ![c] = @ - 1]
    /\ LET o == StepOutcome(cur[c], calls[c]) IN
        IF o.raised \/ lost[c]
        THEN /\ err' = [err EXCEPT ![c] = IF o.raised THEN StepFailure ELSE SendFailure]
             /\ pc' = [pc EXCEPT ![c] = "send_error"]
             /\ UNCHANGED result
        ELSE /\ result' = [result EXCEPT ![c] = o.res]
             /\ pc' = [pc EXCEPT ![c] = "send_step"]
             /\ UNCHANGED err
    /\ UNCHANGED <<inbox, lost, wire, sess, cur, built, calls, taken, exit,
                   lossSeen, budget>>
    /\ UNCHANGED <<agent_lock, scanVars, decVars>>

\* lines 133 and 137: the call returns, or raises, and the await resumes
StepReturn(c) ==
    /\ pc[c] = "in_step"
    /\ inflight[c] > 0
    /\ LoopFree(c)
    /\ inflight' = [inflight EXCEPT ![c] = @ - 1]
    /\ LET o == StepOutcome(cur[c], calls[c]) IN
        IF o.raised
        THEN /\ err' = [err EXCEPT ![c] = StepFailure]
             /\ pc' = [pc EXCEPT ![c] = "send_error"]
             /\ UNCHANGED result
        ELSE /\ result' = [result EXCEPT ![c] = o.res]
             /\ pc' = [pc EXCEPT ![c] = "send_step"]
             /\ UNCHANGED err
    /\ UNCHANGED <<inbox, lost, wire, sess, cur, built, calls, taken, exit,
                   lossSeen, budget>>
    /\ UNCHANGED <<agent_lock, scanVars, decVars>>

\* the loop condition of line 136 inverted
SendStepInverted(c) ==
    /\ pc[c] = "send_step"
    /\ SendJson(c, "step", result[c])
    /\ AfterSend(c, IF result[c].finished THEN "in_step" ELSE "send_finish")
    /\ StepDispatch(c, ~lost[c] /\ result[c].finished)
    /\ UNCHANGED <<inbox, lost, sess, cur, built, taken, result, exit, budget>>
    /\ UNCHANGED <<agent_lock, scanVars, decVars>>

\* lines 134 and 138, the loop condition of line 136 and the call of line 137
SendStep(c) ==
    /\ pc[c] = "send_step"
    /\ LoopFree(c)
    /\ SendJson(c, "step", result[c])
    /\ AfterSend(c, IF result[c].finished THEN "send_finish" ELSE "in_step")
    /\ StepDispatch(c, ~lost[c] /\ ~result[c].finished)
    /\ UNCHANGED <<inbox, lost, sess, cur, built, taken, result, exit, budget>>
    /\ UNCHANGED <<agent_lock, scanVars, decVars>>

\* a statement after the send of line 140 raises inside the try block
SendFinishThenRaise(c) ==
    /\ pc[c] = "send_finish"
    /\ LoopFree(c)
    /\ SendJson(c, "finish", FinishMessage(result[c]))
    /\ pc' = [pc EXCEPT ![c] = "send_error"]
    /\ err' = [err EXCEPT ![c] = IF lost[c] THEN SendFailure ELSE StepFailure]
    /\ UNCHANGED <<inbox, lost, sess, cur, built, calls, inflight, taken,
                   result, exit, budget>>
    /\ UNCHANGED <<agent_lock, scanVars, decVars>>

\* line 140, then back to receive_json
SendFinish(c) ==
    /\ pc[c] = "send_finish"
    /\ LoopFree(c)
    /\ SendJson(c, "finish", FinishMessage(result[c]))
    /\ AfterSend(c, "recv")
    /\ UNCHANGED <<inbox, lost, sess, cur, built, calls, inflight, taken,
                   result, exit, budget>>
    /\ UNCHANGED <<agent_lock, scanVars, decVars>>

\* the handler of line 142 goes on stepping after the error event
SendErrorRetry(c) ==
    /\ pc[c] = "send_error"
    /\ SendJson(c, "error", err[c])
    /\ IF lost[c]
       THEN /\ pc' = [pc EXCEPT ![c] = "closed"]
            /\ exit' = [exit EXCEPT ![c] = "crashed"]
       ELSE /\ pc' = [pc EXCEPT ![c] = "in_step"]
            /\ UNCHANGED exit
    /\ StepDispatch(c, ~lost[c])
    /\ UNCHANGED <<inbox, lost, sess, cur, built, taken, result, err, budget>>
    /\ UNCHANGED <<agent_lock, scanVars, decVars>>

\* lines 142-144: the error event is sent, then traceback.print_exc() is
\* evaluated; the module never imports traceback, so the name lookup raises
\* NameError, which leaves the coroutine. A send that fails here raises out
\* of the handler: WebSocketDisconnect (caught at line 146) or RuntimeError.
SendError(c) ==
    /\ pc[c] = "send_error"
    /\ LoopFree(c)
    /\ SendJson(c, "error", err[c])
    /\ pc' = [pc EXCEPT ![c] = "closed"]
    /\ \E how \in IF lost[c] THEN {"disconnected", "crashed"} ELSE {"crashed"} :
          exit' = [exit EXCEPT ![c] = how]
    /\ UNCHANGED <<inbox, lost, sess, cur, built, calls, inflight, taken,
                   result, err, budget>>
    /\ UNCHANGED <<agent_lock, scanVars, decVars>>

NextWS ==
    \/ \E c \in Conns, m \in Messages : ClientSend(c, m)
    \/ \E c \in Conns : ClientDisconnect(c)
    \/ \E c \in Conns : Receive(c)
    \/ \E c \in Conns : ReceiveDisconnect(c)
    \/ \E c \in Conns : SendInfo(c)
    \/ \E c \in Conns : StepReturn(c)
    \/ \E c \in Conns : SendStep(c)
    \/ \E c \in Conns : SendFinish(c)
    \/ \E c \in Conns : SendError(c)

\* ------------------------------------------------------------------------
\* phone_agent/adb/scanner.py: discovery
\* ------------------------------------------------------------------------
\* Addresses are strings, modelled as sequences of one-character strings.
\* entries of the neighbor cache a scan may see
MaxArp == 2
\* addresses of the pool whose probe connects
MaxOpen == 2
\* addresses of the pool for which creating the probe's socket fails
MaxRaise == 1

DigitChars == <<"0", "1", "2", "3", "4", "5", "6", "7", "8", "9">>

\* str(i) of a non-negative integer
RECURSIVE Str(_)
Str(n) == IF n < 10 THEN <<DigitChars[n + 1]>>
          ELSE Str(n \div 10) \o <<DigitChars[(n % 10) + 1]>>

\* s.split(sep) for a one-character separator
RECURSIVE Split(_, _)
Split(s, sep) ==
    IF \A i \in 1..Len(s) : s[i] # sep THEN <<s>>
    ELSE LET i == CHOOSE j \in 1..Len(s) :
                     s[j] = sep /\ \A h \in 1..(j - 1) : s[h] # sep
         IN <<SubSeq(s, 1, i - 1)>> \o Split(SubSeq(s, i + 1, Len(s)), sep)

\* sep.join(parts)
RECURSIVE Join(_, _)
Join(parts, sep) ==
    IF parts = <<>> THEN <<>>
    ELSE IF Len(parts) = 1 THEN parts[1]
    ELSE parts[1] \o <<sep>> \o Join(Tail(parts), sep)

\* s.startswith(p)
StartsWith(s, p) == Len(p) <= Len(s) /\ SubSeq(s, 1, Len(p)) = p

\* ".".join(ip.split(".")[:-1]) (lines 35 and 99)
SubnetPrefix(ip) ==
    LET parts == Split(ip, ".") IN Join(SubSeq(parts, 1, Len(parts) - 1), ".")

\* the dotted string of four octets
Dotted(a, b, c, d) == Join(<<Str(a), Str(b), Str(c), Str(d)>>, ".")

\* what get_local_ip returns when the resolution fails (line 21)
Loopback == Dotted(127, 0, 0, 1)
\* the address of the machine on its network
OwnIp == Dotted(10, 0, 1, 5)
\* results of get_local_ip
LocalIps == {Loopback, OwnIp}

\* addresses the regular expression of line 32 may find in the output of
\* arp -a: two neighbours, the machine itself, a host of 10.0.12.0/24 and a
\* host of 10.0.2.0/24
ArpPool == {Dotted(10, 0, 1, 7), Dotted(10, 0, 1, 9), OwnIp,
            Dotted(10, 0, 12, 7), Dotted(10, 0, 2, 9)}

\* first and one-past-last host number of range(1, 255) (line 100)
HostFirst == 1
HostEnd == 255

\* [f"{subnet}.{i}" for i in range(1, 255)] (line 100)
SubnetHosts(subnet) ==
    [j \in 1..(HostEnd - HostFirst) |-> subnet \o <<".">> \o Str(HostFirst + j - 1)]

Range(seq) == {seq[i] : i \in 1..Len(seq)}

\* the orders in which list(ips) may enumerate the set ips (line 45)
Orderings(S) ==
    {f \in [1..Cardinality(S) -> S] : \A x \in S : \E i \in 1..Cardinality(S) : f[i] = x}

\* check_port (lines 48-60): socket.socket() is evaluated before the try
\* block, so its failure leaves the function as an exception; a connection
\* that is accepted returns ip, everything else returns None
CheckPort(ip) ==
    IF ip \in envRaise THEN "raise"
    ELSE IF ip \in envOpen THEN "ip"
    ELSE "None"

\* lines 87-91 and 106-110: every address of the list is submitted, then the
\* results are collected in list order; future.result() re-raises
Collect(ips) ==
    LET raising == {i \in 1..Len(ips) : CheckPort(ips[i]) = "raise"}
        stop == IF raising = {} THEN Len(ips) + 1
                ELSE CHOOSE i \in raising : \A j \in raising : i <= j
    IN [raised |-> raising # {},
        found |-> SelectSeq(SubSeq(ips, 1, stop - 1),
                            LAMBDA ip : CheckPort(ip) = "ip")]

\* the probe stub of one scan: either exactly one host of the subnet
\* accepts, or the accepting and the failing addresses are taken from the pool
InitScan ==
    /\ scanPc = "start"
    /\ \/ /\ envOpen \in {{h} : h \in Range(SubnetHosts(SubnetPrefix(OwnIp)))}
          /\ envRaise = {}
       \/ /\ envOpen \in {S \in SUBSET ArpPool : Cardinality(S) <= MaxOpen}
          /\ envRaise \in {S \in SUBSET ArpPool : Cardinality(S) <= MaxRaise}
    /\ local_ip = <<>>
    /\ arp_local = <<>>
    /\ arp_ips = <<>>
    /\ found_ips = <<>>
    /\ fastProbed = {}
    /\ slowProbed = {}

\* lines 76-78
GetLocalIp ==
    /\ scanPc = "start"
    /\ \E ip \in LocalIps :
        /\ local_ip' = ip
        /\ scanPc' = IF ip = Loopback THEN "returned" ELSE "arp"
    /\ UNCHANGED <<envOpen, envRaise, arp_local, arp_ips, found_ips,
                   fastProbed, slowProbed>>
    /\ UNCHANGED <<wsVars, decVars>>

\* get_arp_ips without its try block: a failing query leaves scan_network
GetArpIpsUncaught ==
    /\ scanPc = "arp"
    /\ \E failed \in BOOLEAN, al \in LocalIps :
       \E found \in {S \in SUBSET ArpPool : Cardinality(S) <= MaxArp} :
        LET ips == IF failed THEN {}
                   ELSE {ip \in found : StartsWith(ip, SubnetPrefix(al)) /\ ip # al}
        IN /\ arp_local' = (IF failed THEN <<>> ELSE al)
           /\ arp_ips' \in Orderings(ips)
           /\ scanPc' = IF failed THEN "raised" ELSE "fast"
    /\ UNCHANGED <<envOpen, envRaise, local_ip, found_ips, fastProbed, slowProbed>>
    /\ UNCHANGED <<wsVars, decVars>>

\* get_arp_ips (lines 24-45), called at line 83
GetArpIps ==
    /\ scanPc = "arp"
    /\ \E failed \in BOOLEAN, al \in LocalIps :
       \E found \in {S \in SUBSET ArpPool : Cardinality(S) <= MaxArp} :
        LET ips == IF failed THEN {}
                   ELSE {ip \in found : StartsWith(ip, SubnetPrefix(al)) /\ ip # al}
        IN /\ arp_local' = (IF failed THEN <<>> ELSE al)
           /\ arp_ips' \in Orderings(ips)
    /\ scanPc' = "fast"
    /\ UNCHANGED <<envOpen, envRaise, local_ip, found_ips, fastProbed, slowProbed>>
    /\ UNCHANGED <<wsVars, decVars>>

\* lines 84-95
FastPath ==
    /\ scanPc = "fast"
    /\ LET r == Collect(arp_ips) IN
        /\ fastProbed' = Range(arp_ips)
        /\ found_ips' = r.found
        /\ scanPc' = IF r.raised THEN "raised"
                     ELSE IF r.found # <<>> THEN "returned"
                     ELSE "slow"
    /\ UNCHANGED <<envOpen, envRaise, local_ip, arp_local, arp_ips, slowProbed>>
    /\ UNCHANGED <<wsVars, decVars>>

\* line 103 without its condition: every host of the subnet is probed
SlowPathUnfiltered ==
    /\ scanPc = "slow"
    /\ LET ips_to_scan == SubnetHosts(SubnetPrefix(local_ip))
           r == Collect(ips_to_scan)
       IN /\ slowProbed' = Range(ips_to_scan)
          /\ found_ips' = found_ips \o r.found
          /\ scanPc' = IF r.raised THEN "raised" ELSE "returned"
    /\ UNCHANGED <<envOpen, envRaise, local_ip, arp_local, arp_ips, fastProbed>>
    /\ UNCHANGED <<wsVars, decVars>>

\* range(1, 254) at line 100: the last host is left out
SlowPathShort ==
    /\ scanPc = "slow"
    /\ LET all == SubnetHosts(SubnetPrefix(local_ip))
           ips_to_scan == SelectSeq(SubSeq(all, 1, Len(all) - 1),
                              LAMBDA ip : ip \notin Range(arp_ips) /\ ip # local_ip)
           r == Collect(ips_to_scan)
       IN /\ slowProbed' = Range(ips_to_scan)
          /\ found_ips' = found_ips \o r.found
          /\ scanPc' = IF r.raised THEN "raised" ELSE "returned"
    /\ UNCHANGED <<envOpen, envRaise, local_ip, arp_local, arp_ips, fastProbed>>
    /\ UNCHANGED <<wsVars, decVars>>

\* lines 97-112
SlowPath ==
    /\ scanPc = "slow"
    /\ LET ips_to_scan == SelectSeq(SubnetHosts(SubnetPrefix(local_ip)),
                              LAMBDA ip : ip \notin Range(arp_ips) /\ ip # local_ip)
           r == Collect(ips_to_scan)
       IN /\ slowProbed' = Range(ips_to_scan)
          /\ found_ips' = found_ips \o r.found
          /\ scanPc' = IF r.raised THEN "raised" ELSE "returned"
    /\ UNCHANGED <<envOpen, envRaise, local_ip, arp_local, arp_ips, fastProbed>>
    /\ UNCHANGED <<wsVars, decVars>>

NextScan ==
    \/ GetLocalIp
    \/ GetArpIps
    \/ FastPath
    \/ SlowPath

\* ------------------------------------------------------------------------
\* phone_agent/model/client.py: request and _parse_response
\* ------------------------------------------------------------------------
\* chunks of the streamed reply consumed by one call of request
MaxChunks == 3

\* a Python string as the sequence of its characters
Chars(s) == [i \in 1..Len(s) |-> SubSeq(s, i, i)]

\* the characters str.strip() removes
WhitespaceChars == {" ", "\t", "\n", "\r"}

\* s.strip()
Strip(s) ==
    LET keep == {i \in 1..Len(s) : s[i] \notin WhitespaceChars}
    IN IF keep = {} THEN <<>>
       ELSE SubSeq(s, CHOOSE i \in keep : \A j \in keep : i <= j,
                      CHOOSE i \in keep : \A j \in keep : j <= i)

\* s.find(sub): the lowest 0-based index at which sub occurs, or -1
Find(s, sub) ==
    LET at == {p \in 0..(Len(s) - Len(sub)) : SubSeq(s, p + 1, p + Len(sub)) = sub}
    IN IF at = {} THEN -1 ELSE CHOOSE p \in at : \A q \in at : p <= q

\* sub in s
Contains(s, sub) == Find(s, sub) # -1

\* s.split(sep, 1) for a separator that occurs in s
SplitFirst(s, sep) ==
    LET p == Find(s, sep)
    IN <<SubSeq(s, 1, p), SubSeq(s, p + Len(sep) + 1, Len(s))>>

\* s.replace(old, "")
RECURSIVE Remove(_, _)
Remove(s, old) ==
    LET p == Find(s, old)
    IN IF p = -1 THEN s
       ELSE SubSeq(s, 1, p) \o Remove(SubSeq(s, p + Len(old) + 1, Len(s)), old)

AnswerOpen == Chars("<answer>")
AnswerClose == Chars("</answer>")
ThinkOpen == Chars("<think>")
ThinkClose == Chars("</think>")

\* action_markers without its last entry
ActionMarkersShort == <<Chars("{action="), Chars("do(")>>

\* action_markers (line 110)
ActionMarkers == <<Chars("{action="), Chars("do("), Chars("finish(")>>

\* the loop body without the test pos < first_marker_pos: the last marker
\* of the list that occurs wins
NearerMarkerPosLastWins(content, marker, first) ==
    LET pos == Find(content, marker)
    IN IF pos # -1 THEN pos ELSE first

\* the body of the loop (lines 114-116): first_marker_pos after marker
NearerMarkerPos(content, marker, first) ==
    LET pos == Find(content, marker)
    IN IF pos # -1 /\ pos < first THEN pos ELSE first

\* the loop of lines 111-116 from marker i on, first being first_marker_pos
RECURSIVE FirstMarkerPos(_, _, _)
FirstMarkerPos(content, i, first) ==
    IF i > Len(ActionMarkers) THEN first
    ELSE FirstMarkerPos(content, i + 1, NearerMarkerPos(content, ActionMarkers[i], first))

\* Case 1 (lines 96-99)
AnswerCase(content) ==
    LET parts == SplitFirst(content, AnswerOpen)
    IN [thinking |-> Strip(Remove(Remove(parts[1], ThinkOpen), ThinkClose)),
        action |-> Strip(Remove(parts[2], AnswerClose))]

\* Case 2 (lines 103-106)
ThinkCase(content) ==
    LET parts == SplitFirst(content, ThinkClose)
    IN [thinking |-> Strip(Remove(parts[1], ThinkOpen)),
        action |-> Strip(parts[2])]

\* Case 3 (lines 119-121)
MarkerCase(content, first_marker_pos) ==
    [thinking |-> Strip(SubSeq(content, 1, first_marker_pos)),
     action |-> Strip(SubSeq(content, first_marker_pos + 1, Len(content)))]

\* the condition of Case 4 (line 125)
LooksLikeAction(content) ==
    \/ StartsWith(content, Chars("{"))
    \/ StartsWith(content, Chars("do("))
    \/ StartsWith(content, Chars("finish("))

\* _parse_response with Case 2 tried before Case 1
ParseResponseThinkFirst(raw) ==
    LET content == Strip(raw)
        first_marker_pos == FirstMarkerPos(content, 1, Len(content))
    IN IF Contains(content, ThinkOpen) /\ Contains(content, ThinkClose)
            THEN ThinkCase(content)
       ELSE IF Contains(content, AnswerOpen) THEN AnswerCase(content)
       ELSE IF first_marker_pos < Len(content)
            THEN MarkerCase(content, first_marker_pos)
       ELSE IF LooksLikeAction(content)
            THEN [thinking |-> <<>>, action |-> content]
       ELSE [thinking |-> content, action |-> <<>>]

\* _parse_response (lines 82-129)
ParseResponse(raw) ==
    LET content == Strip(raw)
        first_marker_pos == FirstMarkerPos(content, 1, Len(content))
    IN IF Contains(content, AnswerOpen) THEN AnswerCase(content)
       ELSE IF Contains(content, ThinkOpen) /\ Contains(content, ThinkClose)
            THEN ThinkCase(content)
       ELSE IF first_marker_pos < Len(content)
            THEN MarkerCase(content, first_marker_pos)
       ELSE IF LooksLikeAction(content)
            THEN [thinking |-> <<>>, action |-> content]
       ELSE [thinking |-> content, action |-> <<>>]

\* what one chunk of the stream may carry (chunk.choices[0].delta.content)
ChunkPool ==
    {ThinkOpen, ThinkClose, AnswerOpen, AnswerClose,
     Chars("{action="), Chars("do("), Chars("finish("), Chars("{"),
     Chars(" "), Chars("foo"),
     Chars("<think>foo</think>"), Chars("do(tap,1,2)</answer>"),
     Chars("I will tap the button. do(tap,1,2)"), Chars("finish()")}

\* lines 69-72: the stream is created, raw_content is empty
InitDecode ==
    /\ decPc = "stream"
    /\ chunks = 0
    /\ raw_content = <<>>
    /\ thinking = <<>>
    /\ action = <<>>

\* lines 73-75: one chunk of the stream is appended to raw_content
StreamChunk ==
    /\ decPc = "stream"
    /\ chunks < MaxChunks
    /\ \E delta \in ChunkPool : raw_content' = raw_content \o delta
    /\ chunks' = chunks + 1
    /\ UNCHANGED <<decPc, thinking, action>>
    /\ UNCHANGED <<wsVars, scanVars>>

\* lines 78-80: the stream has ended, the reply is decoded
ParseReply ==
    /\ decPc = "stream"
    /\ LET r == ParseResponse(raw_content)
       IN /\ thinking' = r.thinking
          /\ action' = r.action
    /\ decPc' = "returned"
    /\ UNCHANGED <<chunks, raw_content>>
    /\ UNCHANGED <<wsVars, scanVars>>

NextDecode ==
    \/ StreamChunk
    \/ ParseReply

InitDecodeIdle ==
    /\ decPc = "idle"
    /\ chunks = 0
    /\ raw_content = <<>>
    /\ thinking = <<>>
    /\ action = <<>>

InitScanIdle ==
    /\ scanPc = "idle"
    /\ envOpen = {}
    /\ envRaise = {}
    /\ local_ip = <<>>
    /\ arp_local = <<>>
    /\ arp_ips = <<>>
    /\ found_ips = <<>>
    /\ fastProbed = {}
    /\ slowProbed = {}

Init == InitWS /\ InitScanIdle /\ InitDecodeIdle
Next == NextWS
Spec == Init /\ [][Next]_vars

\* the next step of the session the coroutine of c is driving
SessionStep(c) ==
    \/ SendInfo(c)
    \/ StepReturn(c)
    \/ SendStep(c)
    \/ SendFinish(c)
    \/ SendError(c)

\* The event loop resumes every coroutine that can run, the executor runs
\* every call handed to it, and the stubbed step call returns or raises.
Fairness == \A c \in Conns : WF_vars(SessionStep(c))

FairSpec == Init /\ [][Next]_vars /\ Fairness

\* one call of scan_network, no websocket traffic
ScanInit == InitWS /\ InitScan /\ InitDecodeIdle
SpecScan == ScanInit /\ [][NextScan]_vars

\* one call of ModelClient.request, no websocket traffic and no scan
DecodeInit == InitWS /\ InitScanIdle /\ InitDecode
SpecDecode == DecodeInit /\ [][NextDecode]_vars

\* ------------------------------------------------------------------------
\* Properties of the session protocol
\* ------------------------------------------------------------------------
IsPrefix(a, b) == Len(a) <= Len(b) /\ \A i \in 1..Len(a) : a[i] = b[i]

\* the events of session s the client of c received, as <<type, payload>>
SessionEvents(c, s) ==
    LET es == SelectSeq(Events(c), LAMBDA e : e.sess = s)
    IN [i \in 1..Len(es) |-> <<es[i].type, es[i].data>>]

StepEvents(c, s) == SelectSeq(SessionEvents(c, s), LAMBDA e : e[1] = "step")

\* the step events of the first n calls of the executor selected by m
StepPart(m, n) == [i \in 1..n |-> <<"step", StepOutcome(m, i).res>>]

ExpectedFinished(m) ==
    <<(<<"info", "Starting task...">>)>> \o StepPart(m, m.k + 1)
        \o <<(<<"finish", FinishMessage(StepOutcome(m, m.k + 1).res)>>)>>

ExpectedErrored(m) ==
    <<(<<"info", "Starting task...">>)>> \o StepPart(m, m.k)
        \o <<(<<"error", StepFailure>>)>>

\* session s of connection c is no longer being driven by the coroutine
Over(c, s) == s < sess[c] \/ pc[c] \in {"recv", "closed"}

\* C1: on a connection that stays open, a task whose executor returns
\* finished=false k times and then finished=true produces exactly: info,
\* k+1 step events carrying the results of calls 1..k+1 in call order,
\* finish; at every moment the events so far are a prefix of that sequence.
C1_StepOrdering ==
    \A c \in Conns : ~lost[c] =>
        \A s \in 1..sess[c] :
            LET m == taken[c][s] IN
            (m.setup = "ok" /\ ~m.raises) =>
                /\ IsPrefix(SessionEvents(c, s), ExpectedFinished(m))
                /\ Over(c, s) => SessionEvents(c, s) = ExpectedFinished(m)

C1_Witness ==
    \E c \in Conns :
        /\ ~lost[c] /\ pc[c] = "recv" /\ sess[c] >= 1
        /\ taken[c][sess[c]].k = MaxK /\ ~taken[c][sess[c]].raises
        /\ Len(StepEvents(c, sess[c])) = MaxK + 1
        /\ wire[c][Len(wire[c])].type = "finish"

\* C2: an executor that raises on call n = k+1 after k unfinished results
\* produces exactly k step events followed by exactly one error event
\* carrying the failure's description; no call k+2 is made, no finish event
\* and no further step event follows.
C2_ErrorShortCircuit ==
    \A c \in Conns :
        \A s \in 1..sess[c] :
            LET m == taken[c][s] IN
            (m.setup = "ok" /\ m.raises) =>
                /\ (s = sess[c]) => calls[c] <= m.k + 1
                /\ ~lost[c] =>
                    /\ IsPrefix(SessionEvents(c, s), ExpectedErrored(m))
                    /\ Over(c, s) => SessionEvents(c, s) = ExpectedErrored(m)

C2_Witness ==
    \E c \in Conns :
        /\ ~lost[c] /\ pc[c] = "closed" /\ sess[c] >= 1
        /\ taken[c][sess[c]].raises /\ taken[c][sess[c]].k = 1
        /\ calls[c] = 2
        /\ SessionEvents(c, sess[c]) = ExpectedErrored(taken[c][sess[c]])

\* session s of connection c emitted its terminal event
Finished(c, s) == \E i \in 1..Len(SessionEvents(c, s)) : SessionEvents(c, s)[i][1] = "finish"
Errored(c, s) == \E i \in 1..Len(SessionEvents(c, s)) : SessionEvents(c, s)[i][1] = "error"

\* C3: on a connection that is still open, once the last session has reached
\* Finished or Errored the coroutine is back at receive_json, so that the
\* next task-start message is accepted and starts a new session.
C3_AcceptsAfterTerminal ==
    \A c \in Conns :
        (~lost[c] /\ sess[c] >= 1 /\ (Finished(c, sess[c]) \/ Errored(c, sess[c])))
            => pc[c] = "recv"

\* C4: once a receive or a send has failed on the lost connection, the
\* coroutine makes no further send_json call on it and starts no step call.
C4_SilentAfterLoss ==
    [][\A c \in Conns : lossSeen[c] => (wire'[c] = wire[c] /\ calls'[c] = calls[c])]_vars

\* C5: at most one agent.step call of a connection is in flight, and while
\* call n is in flight exactly the step events of calls 1..n-1 have been sent.
C5_SequentialSteps ==
    \A c \in Conns :
        /\ inflight[c] <= 1
        /\ (pc[c] = "in_step") = (inflight[c] = 1)
        /\ pc[c] = "in_step" => StepEvents(c, sess[c]) = StepPart(cur[c], calls[c] - 1)

C5_Witness ==
    \E c \in Conns :
        /\ pc[c] = "in_step" /\ calls[c] = 2 /\ inflight[c] = 1
        /\ Len(StepEvents(c, sess[c])) = 1

\* C10: while the step call of connection a is in flight, every other
\* connection b can take its next step: read its task-start message, send
\* its info event, start its own step call, have it return, send its events.
C10_NoCrossBlocking ==
    \A a \in Conns : \A b \in Conns \ {a} :
        pc[a] = "in_step" =>
            /\ (pc[b] = "recv" /\ inbox[b] # <<>>) => ENABLED Receive(b)
            /\ pc[b] = "send_info" => ENABLED SendInfo(b)
            /\ pc[b] = "in_step" => ENABLED StepReturn(b)
            /\ pc[b] = "send_step" => ENABLED SendStep(b)
            /\ pc[b] = "send_finish" => ENABLED SendFinish(b)

C10_Witness ==
    \E a \in Conns : \E b \in Conns \ {a} :
        /\ pc[a] = "in_step" /\ calls[a] = 1
        /\ pc[b] = "in_step" /\ calls[b] = 2
        /\ Len(StepEvents(b, sess[b])) = 1

\* the coroutine of c is driving a session
Running(c) == pc[c] \in {"send_info", "in_step", "send_step", "send_finish", "send_error"}

\* what a step of the model does to connection c when it is lost and its
\* step call is in flight: nothing, or the call returns its own outcome
StepCompletes(c) ==
    LET o == StepOutcome(cur[c], calls[c]) IN
    \/ pc'[c] = "in_step" /\ inflight'[c] = inflight[c]
    \/ /\ inflight'[c] = inflight[c] - 1
       /\ IF o.raised THEN pc'[c] = "send_error" /\ err'[c] = StepFailure
                      ELSE pc'[c] = "send_step" /\ result'[c] = o.res

\* C14: when the connection is lost while step call n is in flight, the call
\* is not interrupted: it can return, it returns its own result, nothing is
\* sent and no failure is seen before it does, and no step call is started
\* on a lost connection.
C14_LossDuringStep ==
    /\ [](\A c \in Conns : (lost[c] /\ pc[c] = "in_step") =>
              (inflight[c] = 1 /\ ENABLED StepReturn(c)))
    /\ [][\A c \in Conns :
            /\ (lost[c] /\ pc[c] = "in_step") =>
                  /\ StepCompletes(c)
                  /\ wire'[c] = wire[c]
                  /\ lossSeen'[c] = lossSeen[c]
                  /\ calls'[c] = calls[c]
            /\ lost[c] => (inflight'[c] <= inflight[c] /\ calls'[c] <= calls[c])]_vars

C14_Witness ==
    \E c \in Conns :
        /\ lost[c] /\ ~lossSeen[c]
        /\ pc[c] = "in_step" /\ inflight[c] = 1 /\ calls[c] = 2

\* the send_json calls of c never go back to an earlier session
SessionsInOrder(c) ==
    \A i \in 1..Len(wire[c]) : \A j \in i..Len(wire[c]) :
        wire[c][i].sess <= wire[c][j].sess

\* session s of c made its terminal send_json call
Terminated(c, s) ==
    \E i \in 1..Len(wire[c]) :
        wire[c][i].sess = s /\ wire[c][i].type \in {"finish", "error"}

\* C15: a connection drives at most one session at a time: while a task
\* runs, a task-start message that has arrived is not read (no context is
\* built, no info event sent, no step call started for it) until the running
\* task has made its terminal send.
C15_OneSessionPerConnection ==
    \A c \in Conns :
        /\ Running(c) => ~ENABLED Receive(c)
        /\ SessionsInOrder(c)
        /\ \A s \in 1..(sess[c] - 1) : Terminated(c, s)
        /\ built[c] <= sess[c]
        /\ inflight[c] <= 1

C15_Witness ==
    \E c \in Conns :
        /\ pc[c] = "in_step" /\ inflight[c] = 1 /\ sess[c] = 1
        /\ inbox[c] # <<>>
        /\ built[c] = 1

\* the terminal events of session s the client of c received
TerminalEvents(c, s) ==
    SelectSeq(SessionEvents(c, s), LAMBDA e : e[1] \in {"finish", "error"})

\* on an open connection a started session has no terminal event while it
\* runs and exactly one once it is over
OneTerminalEvent ==
    \A c \in Conns : ~lost[c] =>
        \A s \in 1..sess[c] :
            taken[c][s].setup = "ok" =>
                /\ Len(TerminalEvents(c, s)) <= 1
                /\ Over(c, s) => Len(TerminalEvents(c, s)) = 1
                /\ ~Over(c, s) => Len(TerminalEvents(c, s)) = 0

\* C18: every started session whose step calls return leaves Running (a
\* behaviour has finitely many sessions, so from some moment on no coroutine
\* is driving one), and on a connection that stays open it ends with exactly
\* one terminal event, finish or error, never both.
C18_ReachesOneTerminal ==
    /\ <>[](\A c \in Conns : ~Running(c))
    /\ []OneTerminalEvent

C18_Witness ==
    \E c \in Conns :
        /\ ~lost[c] /\ pc[c] = "closed" /\ sess[c] = 2
        /\ TerminalEvents(c, 1) = <<(<<"finish", "done">>)>>
        /\ TerminalEvents(c, 2) = <<(<<"error", StepFailure>>)>>

\* the message makes the session fail: in the setup or in a step call
Fails(m) == m.setup # "ok" \/ m.raises

\* C19: on an open connection every session that fails, in the setup as well
\* as in a step call, ends with exactly one error event, and the coroutine is
\* back at receive_json.
C19_EveryFailureOneError ==
    \A c \in Conns : ~lost[c] =>
        \A s \in 1..sess[c] :
            (Fails(taken[c][s]) /\ Over(c, s)) =>
                /\ Len(SelectSeq(SessionEvents(c, s), LAMBDA e : e[1] = "error")) = 1
                /\ s = sess[c] => pc[c] = "recv"

\* the task-start messages read on c for which an agent was constructed
Accepted(c) == {s \in 1..sess[c] : taken[c][s].setup = "ok"}

\* C20: one PhoneAgent is built for every task-start message that passes the
\* setup, agent_lock is never held, and a session is never kept waiting for
\* a session of another connection that names the same device.
C20_NoDeviceExclusivity ==
    /\ agent_lock = "free"
    /\ \A c \in Conns : built[c] = Cardinality(Accepted(c))
    /\ \A a \in Conns : \A b \in Conns \ {a} :
          Running(a) =>
            /\ (pc[b] = "recv" /\ inbox[b] # <<>>
                   /\ Head(inbox[b]).device_id = cur[a].device_id) => ENABLED Receive(b)
            /\ (pc[b] = "send_info" /\ cur[b].device_id = cur[a].device_id)
                   => ENABLED SendInfo(b)

C20_Witness ==
    \E a \in Conns : \E b \in Conns \ {a} :
        /\ pc[a] = "in_step" /\ inflight[a] = 1 /\ built[a] = 1
        /\ pc[b] = "in_step" /\ inflight[b] = 1 /\ built[b] = 1
        /\ cur[a].device_id = "d1" /\ cur[b].device_id = "d1"

\* ------------------------------------------------------------------------
\* Properties of the discovery engine
\* ------------------------------------------------------------------------
\* the probe of ip is accepted: check_port returns ip
Succeeds(ip) == CheckPort(ip) = "ip"

\* the fast path has been executed
FastDone == scanPc \in {"slow", "returned", "raised"} /\ local_ip # Loopback

\* the hosts .1 to .254 of the /24 subnet of the local address
LocalHosts == Range(SubnetHosts(SubnetPrefix(local_ip)))

\* C6: when the neighbor cache yields candidates and the probe of at least
\* one of them succeeds, the scan returns exactly the candidates whose probe
\* succeeded and starts no slow-path probe; slow-path probes are started
\* only when no fast-path probe succeeded.
C6_FastPathPrecedence ==
    /\ (FastDone /\ \E ip \in Range(arp_ips) : Succeeds(ip)) =>
          /\ scanPc = "returned"
          /\ Range(found_ips) = {ip \in Range(arp_ips) : Succeeds(ip)}
          /\ slowProbed = {}
    /\ slowProbed # {} => \A ip \in Range(arp_ips) : ~Succeeds(ip)

\* C7 as stated: when the fast path finds nothing, the scan returns exactly
\* the hosts .1 to .254 of the local subnet whose probe succeeds.
C7_SlowPathAllHosts ==
    (scanPc = "returned" /\ local_ip # Loopback
        /\ \A ip \in Range(arp_ips) : ~Succeeds(ip)) =>
        Range(found_ips) = {h \in LocalHosts : Succeeds(h)}

\* C7 amended: when the fast path finds nothing, the scan returns exactly
\* the hosts .1 to .254 of the local subnet, other than the local address
\* itself, whose probe succeeds.
C7_SlowPathCompleteness ==
    (scanPc = "returned" /\ local_ip # Loopback
        /\ \A ip \in Range(arp_ips) : ~Succeeds(ip)) =>
        Range(found_ips) = {h \in LocalHosts \ {local_ip} : Succeeds(h)}

C7_Witness ==
    /\ scanPc = "returned"
    /\ arp_ips = <<>>
    /\ envOpen = {Dotted(10, 0, 1, 254)}
    /\ found_ips = <<Dotted(10, 0, 1, 254)>>
    /\ Cardinality(slowProbed) = 253

\* C8: scan_network never raises to its caller, whatever fails, and returns
\* the empty list when the local address resolves to the loopback address.
C8_FailsSoftly ==
    /\ scanPc # "raised"
    /\ (scanPc = "returned" /\ local_ip = Loopback) => found_ips = <<>>

\* the first three octets of a dotted address
FirstThree(ip) == SubSeq(Split(ip, "."), 1, 3)

\* C9: every candidate get_arp_ips returns has the first three octets of the
\* local address and is not the local address.
C9_CandidatesOnSubnet ==
    \A ip \in Range(arp_ips) :
        FirstThree(ip) = FirstThree(arp_local) /\ ip # arp_local

\* the slow path has been executed
SlowDone ==
    FastDone /\ scanPc # "slow" /\ \A ip \in Range(arp_ips) : CheckPort(ip) = "None"

\* C16: in one scan no address is handed to check_port twice and the local
\* address never is; when the slow path runs it probes exactly the hosts .1
\* to .254 of the local subnet, minus the local address, minus the addresses
\* the fast path probed.
C16_ProbedOnce ==
    /\ Cardinality(Range(arp_ips)) = Len(arp_ips)
    /\ fastProbed \cap slowProbed = {}
    /\ local_ip \notin fastProbed \cup slowProbed
    /\ SlowDone => /\ slowProbed = (LocalHosts \ {local_ip}) \ fastProbed
                   /\ Cardinality(LocalHosts) = HostEnd - HostFirst
    /\ ~SlowDone => slowProbed = {}

C16_Witness ==
    /\ scanPc = "returned"
    /\ Cardinality(fastProbed) = 2
    /\ fastProbed \subseteq LocalHosts
    /\ Cardinality(slowProbed) = 251

\* the query of the neighbor cache failed (lines 43-44)
ArpFailed ==
    /\ scanPc \in {"fast", "slow", "returned", "raised"}
    /\ local_ip # Loopback
    /\ arp_local = <<>>

\* C17: when the query of the neighbor cache fails, the failure is not
\* raised, no fast-path probe is made, and the slow path probes every host
\* of the local subnet other than the local address, with the result a scan
\* with an empty cache has.
C17_ArpFailureAsEmptyCache ==
    ArpFailed =>
        /\ arp_ips = <<>>
        /\ fastProbed = {}
        /\ scanPc \in {"returned", "raised"} => slowProbed = LocalHosts \ {local_ip}
        /\ scanPc = "raised" => \E h \in slowProbed : CheckPort(h) = "raise"
        /\ scanPc = "returned" =>
              Range(found_ips) = {h \in LocalHosts \ {local_ip} : Succeeds(h)}

C17_Witness ==
    /\ ArpFailed
    /\ scanPc = "returned"
    /\ Cardinality(slowProbed) = 253
    /\ found_ips # <<>>

\* ------------------------------------------------------------------------
\* Properties of the reply decoder
\* ------------------------------------------------------------------------
\* sub occurs in s at the 0-based position p
OccursAt(s, sub, p) == p + Len(sub) <= Len(s) /\ SubSeq(s, p + 1, p + Len(sub)) = sub

Occurs(s, sub) == \E p \in 0..Len(s) : OccursAt(s, sub, p)

\* the three action-start tokens
StartTokens == {Chars("{action="), Chars("do("), Chars("finish(")}

\* some action-start token occurs in s at p
TokenAt(s, p) == \E t \in StartTokens : OccursAt(s, t, p)

\* both rationale markers occur in d
HasThinkPair(d) == Occurs(d, ThinkOpen) /\ Occurs(d, ThinkClose)

AnswerExample == Chars("<think>foo</think><answer>do(tap,1,2)</answer>")

\* C11: a reply whose trimmed text contains <answer> is split at the first
\* <answer>, whatever else it contains: the thinking is the text before it
\* without any <think> and </think>, trimmed, the action is the text after
\* it without any </answer>, trimmed.
C11_AnswerDelimiterWins ==
    LET d == Strip(raw_content) IN
    decPc = "returned" =>
        /\ \A p \in 0..Len(d) :
              (/\ OccursAt(d, AnswerOpen, p)
               /\ \A q \in 0..(p - 1) : ~OccursAt(d, AnswerOpen, q))
              => /\ thinking = Strip(Remove(Remove(SubSeq(d, 1, p), ThinkOpen),
                                            ThinkClose))
                 /\ action = Strip(Remove(SubSeq(d, p + Len(AnswerOpen) + 1,
                                                 Len(d)), AnswerClose))
        /\ raw_content = AnswerExample
              => thinking = Chars("foo") /\ action = Chars("do(tap,1,2)")

C11_Witness ==
    /\ decPc = "returned"
    /\ raw_content = AnswerExample
    /\ thinking = Chars("foo")

TapExample == Chars("I will tap the button. do(tap,1,2)")
FinishExample == Chars("finish()")

C13_EmptyActionOnlyWithoutMarker ==
    LET d == Strip(raw_content) IN
    (decPc = "returned" /\ action = <<>>) =>
        /\ ~Occurs(d, AnswerOpen)
        /\ \A p \in 0..Len(d) : ~TokenAt(d, p)
        /\ thinking = d

\* nothing but whitespace and </answer> follows the first <answer>
BlankAnswer(d) ==
    \E p \in 0..Len(d) :
        /\ OccursAt(d, AnswerOpen, p)
        /\ \A q \in 0..(p - 1) : ~OccursAt(d, AnswerOpen, q)
        /\ Strip(Remove(SubSeq(d, p + Len(AnswerOpen) + 1, Len(d)),
                        AnswerClose)) = <<>>

\* the first </think> ends the trimmed reply
BlankAfterThink(d) ==
    \E p \in 0..Len(d) :
        /\ OccursAt(d, ThinkClose, p)
        /\ \A q \in 0..(p - 1) : ~OccursAt(d, ThinkClose, q)
        /\ p + Len(ThinkClose) = Len(d)

\* C13, amended: an empty action is returned only if nothing follows the
\* first <answer>, or there is no <answer> and nothing follows the first
\* </think> of a reply with both rationale markers, or the reply has no
\* <answer>, not both rationale markers and no action-start token, and then
\* the whole trimmed reply is the thinking.
C13_EmptyActionCases ==
    LET d == Strip(raw_content) IN
    (decPc = "returned" /\ action = <<>>) =>
        \/ BlankAnswer(d)
        \/ ~Occurs(d, AnswerOpen) /\ HasThinkPair(d) /\ BlankAfterThink(d)
        \/ /\ ~Occurs(d, AnswerOpen)
           /\ ~HasThinkPair(d)
           /\ \A p \in 0..Len(d) : ~TokenAt(d, p)
           /\ thinking = d

\* an empty action for a reply that is cut after its <answer>
C13_Witness ==
    /\ decPc = "returned"
    /\ action = <<>>
    /\ raw_content = Chars("<think>foo</think>") \o AnswerOpen
    /\ thinking = Chars("foo")


====
